---- MODULE Spec2Model ----
(***************************************************************************)
(* State-machine model of SmartContractProvider.tsx: a React context       *)
(* provider that creates an ethers JSON-RPC provider and a contract handle *)
(* in a mount effect and publishes nine asynchronous accessors that        *)
(* forward to the contract, convert numeric results and swallow failures.  *)
(*                                                                         *)
(* JavaScript values are tagged records [t |-> <type>, ...].  An ethers    *)
(* BigNumber is the little-endian sequence of its 26-bit words, a          *)
(* JavaScript number is an integer.                                        *)
(***************************************************************************)
EXTENDS Integers, Sequences, FiniteSets

VARIABLES
    mounted,        \* the component has rendered for the first time
    effectQueued,   \* the useEffect callback is scheduled and has not run yet
    deps,           \* dependency array the effect was last scheduled with
    provider,       \* useState cell `provider`
    contract,       \* useState cell `contract`
    pending,        \* state updates queued by setProvider / setContract
    initRuns,       \* number of times init() has executed
    initLogs,       \* console.error lines written by init()
    calls,          \* one frame per accessor invocation
    txs             \* chain-side status of the transaction sent by each invocation

vars == <<mounted, effectQueued, deps, provider, contract, pending,
          initRuns, initLogs, calls, txs>>

----------------------------------------------------------------------------
(* Bounds *)

\* levels passed to the accessors range over 1..MaxLevel
MaxLevel == 2

\* init() is not executed more than MaxInst times
MaxInst == 2

\* two accessor invocations may be in flight at once; a frame is free again
\* when its caller has taken the result, so calls also follow one another
CallIds == {1, 2}

Addresses == {"a1", "a2"}

Matrices == {1, 2}

----------------------------------------------------------------------------
(* JavaScript values *)

Null == [t |-> "null"]

Undefined == [t |-> "undefined"]

NoSigner == [t |-> "none"]

Rejected == [t |-> "rejected"]

NoResponse == [t |-> "pending"]

BN(w) == [t |-> "bn", words |-> w]

Num(n) == [t |-> "num", v |-> n]

Bool(b) == [t |-> "bool", v |-> b]

Struct == [t |-> "struct"]

Tx(i) == [t |-> "tx", id |-> i]

Receipt(i) == [t |-> "receipt", id |-> i]

\* BigNumber.toNumber() throws when the value needs more than 53 bits
ToNumberThrows(b) ==
    \/ b.t # "bn"
    \/ Len(b.words) > 3
    \/ (Len(b.words) = 3 /\ b.words[3] # 1)

\* BigNumber.toNumber(): the word-wise sum a 53-bit value is rebuilt from
ToNumber(b) ==
    CASE Len(b.words) = 1 -> Num(b.words[1])
      [] Len(b.words) = 2 -> Num(b.words[1] + b.words[2] * 2^26)
      [] OTHER -> Num(b.words[1] + b.words[2] * 2^26 + 2^52)

----------------------------------------------------------------------------
(* The provider component: state cells, mount effect, init *)

ProviderObj(n) == [t |-> "provider", id |-> n]

ContractObj(n) == [t |-> "contract", id |-> n, provider |-> n]

SetProvider(v) == [cell |-> "provider", value |-> v]

SetContract(v) == [cell |-> "contract", value |-> v]

\* init(): the state updates it queues.  okProvider / okContract say whether
\* the JsonRpcProvider and the Contract constructor return or throw.
InitUpdatesNoProvider(okProvider, okContract, n) ==
    IF okProvider /\ okContract THEN <<SetContract(ContractObj(n))>> ELSE <<>>

InitUpdates(okProvider, okContract, n) ==
    IF ~okProvider THEN <<>>
    ELSE IF ~okContract THEN <<SetProvider(ProviderObj(n))>>
    ELSE <<SetProvider(ProviderObj(n)), SetContract(ContractObj(n))>>

\* the catch block of init(): one console.error when either constructor threw
InitErrors(okProvider, okContract) ==
    IF okProvider /\ okContract THEN 0 ELSE 1

\* dependency array of the mount effect
EffectDepsOnContract(p, c) == <<c>>

EffectDeps(p, c) == <<>>

RECURSIVE ApplyUpdates(_, _, _)
\* value of a state cell after the queued updates, applied in order
ApplyUpdates(cell, cur, q) ==
    IF q = <<>> THEN cur
    ELSE ApplyUpdates(cell, IF Head(q).cell = cell THEN Head(q).value ELSE cur, Tail(q))

----------------------------------------------------------------------------
(* Accessor invocations *)

\* the frame of an accessor that has not been invoked
IdleCall ==
    [pc |-> "idle", acc |-> "none", args |-> <<>>, method |-> "none",
     params |-> <<>>, signer |-> NoSigner, issued |-> 0, waits |-> 0,
     resp |-> NoResponse, wresp |-> NoResponse, result |-> Undefined,
     logged |-> 0]

Accessors ==
    {"fetchData", "writeData", "users", "usersActiveX3Levels",
     "usersActiveX4Levels", "userX3Matrix", "userX4Matrix",
     "getTotalCycles", "getPartnerCount"}

ReadAccessors == Accessors \ {"writeData"}

Levels == 1..MaxLevel

\* methods of the bundled interface schema: the seven read methods the typed
\* accessors call, and one transaction-sending method
ViewMethods ==
    {"users", "usersActiveX3Levels", "usersActiveX4Levels", "usersX3Matrix",
     "usersX4Matrix", "getTotalCycles", "getPartnerCount"}

TxMethods == {"mutatingMethod"}

MethodKind(m) ==
    IF m \in ViewMethods THEN "view"
    ELSE IF m \in TxMethods THEN "tx"
    ELSE "absent"

\* argument vectors an accessor is invoked with
ArgsOf(acc) ==
    CASE acc = "fetchData" ->
            {<<m, a, 1>> : m \in {"usersActiveX3Levels", "noSuchMethod"}, a \in Addresses}
      [] acc = "writeData" ->
            {<<m, a>> : m \in {"mutatingMethod", "users", "noSuchMethod"}, a \in {"a1"}}
      [] acc = "users" -> {<<a>> : a \in Addresses}
      [] acc \in {"usersActiveX3Levels", "usersActiveX4Levels",
                  "userX3Matrix", "userX4Matrix"} ->
            {<<a, l>> : a \in Addresses, l \in Levels}
      [] OTHER -> {<<a, m, l>> : a \in Addresses, m \in Matrices, l \in Levels}

\* the copy-paste slip: the X4 accessor reads the X3 method
ContractMethodX3ForX4(acc, args) ==
    CASE acc \in {"fetchData", "writeData"} -> args[1]
      [] acc = "userX3Matrix" -> "usersX3Matrix"
      [] acc = "userX4Matrix" -> "usersX4Matrix"
      [] acc = "usersActiveX4Levels" -> "usersActiveX3Levels"
      [] OTHER -> acc

\* name of the contract method an accessor invokes
ContractMethod(acc, args) ==
    CASE acc \in {"fetchData", "writeData"} -> args[1]
      [] acc = "userX3Matrix" -> "usersX3Matrix"
      [] acc = "userX4Matrix" -> "usersX4Matrix"
      [] OTHER -> acc

\* arguments passed to the contract method
ContractParams(acc, args) ==
    IF acc \in {"fetchData", "writeData"} THEN Tail(args) ELSE args

BigNums == {BN(<<5>>), BN(<<3, 1>>), BN(<<0, 0, 2>>)}

UserTuples ==
    {[t |-> "tuple", id |-> BN(<<1>>), referrer |-> "a2",
      partnersCount |-> BN(<<2>>), registrationTime |-> BN(<<3, 1>>)],
     [t |-> "tuple", id |-> BN(<<7>>), referrer |-> "a1",
      partnersCount |-> BN(<<0, 0, 2>>), registrationTime |-> BN(<<4>>)]}

\* what the promise returned by contract method m of invocation i settles with
Settlements(m, i) ==
    {Rejected} \cup
    CASE m = "users" -> UserTuples
      [] m \in {"usersActiveX3Levels", "usersActiveX4Levels"} -> {Bool(TRUE), Bool(FALSE)}
      [] m \in {"usersX3Matrix", "usersX4Matrix"} -> {BN(<<5>>), BN(<<0, 0, 2>>), Struct}
      [] m \in {"getTotalCycles", "getPartnerCount"} -> BigNums
      [] OTHER -> {Tx(i)}

\* what tx.wait() settles with, given the transaction's status on chain
WaitSettlements(status, i) ==
    IF status = "mined" THEN {Receipt(i), Rejected} ELSE {Rejected}

\* the guard on the wrong cell
UnsetByProvider(p, c) == p = Null

\* `if (!contract) return null`
Unset(p, c) == c = Null

\* provider?.getSigner()
GetSigner(p) ==
    IF p = Null THEN Undefined ELSE [t |-> "signer", provider |-> p.id]

\* a catch block that logs and throws again
CatchRethrow(c) ==
    [c EXCEPT !.pc = "threw", !.logged = @ + 1]

\* a catch block that logs and calls the contract method once more
CatchRetry(c) ==
    IF c.issued = 1
    THEN [c EXCEPT !.pc = "awaitCall", !.issued = @ + 1, !.logged = @ + 1]
    ELSE [c EXCEPT !.pc = "done", !.result = Null, !.logged = @ + 1]

\* the catch block of an accessor: one console.error, then `return null`
Catch(c) ==
    [c EXCEPT !.pc = "done", !.result = Null, !.logged = @ + 1]

\* `return v`
Return(c, v) ==
    [c EXCEPT !.pc = "done", !.result = v]

\* userData built with partnersCount read from the id field
UserDataIdAsCount(r) ==
    [t |-> "userData",
     id |-> ToNumber(r.id),
     referrer |-> r.referrer,
     partnersCount |-> ToNumber(r.id),
     registrationTime |-> ToNumber(r.registrationTime)]

\* the userData object literal of users()
UserData(r) ==
    [t |-> "userData",
     id |-> ToNumber(r.id),
     referrer |-> r.referrer,
     partnersCount |-> ToNumber(r.partnersCount),
     registrationTime |-> ToNumber(r.registrationTime)]

\* evaluating the userData literal throws: a field is missing or overflows
UserDataThrows(r) ==
    \/ r.t # "tuple"
    \/ ToNumberThrows(r.id)
    \/ ToNumberThrows(r.partnersCount)
    \/ ToNumberThrows(r.registrationTime)

\* writeData returning the transaction without awaiting tx.wait()
WriteDataNoWait(c) ==
    IF c.resp.t # "tx" THEN Catch(c) ELSE Return(c, c.resp)

\* writeData after `await contractWithSigner[methodName](...)`: calls tx.wait()
WriteDataAfterSend(c) ==
    IF c.resp.t # "tx" THEN Catch(c)
    ELSE [c EXCEPT !.pc = "awaitWait", !.waits = @ + 1]

\* the statements of an accessor after its first await fulfilled with c.resp
AfterFulfilled(c) ==
    CASE c.acc = "writeData" -> WriteDataAfterSend(c)
      [] c.acc = "users" ->
            IF UserDataThrows(c.resp) THEN Catch(c) ELSE Return(c, UserData(c.resp))
      [] c.acc \in {"userX4Matrix", "getTotalCycles", "getPartnerCount"} ->
            IF ToNumberThrows(c.resp) THEN Catch(c) ELSE Return(c, ToNumber(c.resp))
      [] OTHER -> Return(c, c.resp)

\* the frame whose continuation a settled promise of invocation i resumes
AwaiterShared(i) == 1

Awaiter(i) == i

\* an accessor from its entry to its first suspension point
Enter(acc, args, p, c) ==
    IF Unset(p, c) THEN [IdleCall EXCEPT !.pc = "done", !.acc = acc, !.args = args,
                                         !.result = Null]
    ELSE LET signer == IF acc = "writeData" THEN GetSigner(p) ELSE NoSigner
             m == ContractMethod(acc, args)
             f == [IdleCall EXCEPT !.acc = acc, !.args = args, !.signer = signer]
             throws == \/ c = Null
                       \/ MethodKind(m) = "absent"
                       \/ signer = Undefined
         IN  IF throws THEN Catch(f)
             ELSE [f EXCEPT !.pc = "awaitCall", !.method = m,
                            !.params = ContractParams(acc, args), !.issued = @ + 1]

Init ==
    /\ mounted = FALSE
    /\ effectQueued = FALSE
    /\ deps = <<>>
    /\ provider = Null
    /\ contract = Null
    /\ pending = <<>>
    /\ initRuns = 0
    /\ initLogs = 0
    /\ calls = [i \in CallIds |-> IdleCall]
    /\ txs = [i \in CallIds |-> "none"]

\* first render: both cells are null and the mount effect is scheduled
Mount ==
    /\ ~mounted
    /\ mounted' = TRUE
    /\ effectQueued' = TRUE
    /\ deps' = EffectDeps(provider, contract)
    /\ UNCHANGED <<provider, contract, pending, initRuns, initLogs, calls, txs>>

\* the effect callback: init() runs to its end without suspending
RunEffect ==
    /\ effectQueued
    /\ initRuns < MaxInst
    /\ \E okProvider \in BOOLEAN, okContract \in BOOLEAN :
          /\ pending' = pending \o InitUpdates(okProvider, okContract, initRuns + 1)
          /\ initLogs' = initLogs + InitErrors(okProvider, okContract)
    /\ initRuns' = initRuns + 1
    /\ effectQueued' = FALSE
    /\ UNCHANGED <<mounted, deps, provider, contract, calls, txs>>

\* re-render: the queued updates are committed in one batch; the effect is
\* scheduled again only when its dependency array changed
Render ==
    /\ mounted
    /\ pending # <<>>
    /\ provider' = ApplyUpdates("provider", provider, pending)
    /\ contract' = ApplyUpdates("contract", contract, pending)
    /\ pending' = <<>>
    /\ deps' = EffectDeps(provider', contract')
    /\ effectQueued' = (effectQueued \/ deps' # deps)
    /\ UNCHANGED <<mounted, initRuns, initLogs, calls, txs>>

\* a consumer invokes an accessor of the current context value
Call(i) ==
    /\ mounted
    /\ calls[i].pc = "idle"
    /\ \E acc \in Accessors :
          \E args \in ArgsOf(acc) :
             calls' = [calls EXCEPT ![i] = Enter(acc, args, provider, contract)]
    /\ UNCHANGED <<mounted, effectQueued, deps, provider, contract, pending,
                   initRuns, initLogs, txs>>

\* the promise of the contract method settles and the accessor continues
Resume(i) ==
    /\ calls[i].pc = "awaitCall"
    /\ \E r \in Settlements(calls[i].method, i) :
          LET c == [calls[Awaiter(i)] EXCEPT !.resp = r]
          IN  /\ calls' = [calls EXCEPT ![Awaiter(i)] =
                              IF r = Rejected THEN Catch(c) ELSE AfterFulfilled(c)]
              /\ txs' = IF r.t = "tx" THEN [txs EXCEPT ![i] = "pending"] ELSE txs
    /\ UNCHANGED <<mounted, effectQueued, deps, provider, contract, pending,
                   initRuns, initLogs>>

\* the chain includes the transaction in a block, or reverts it
Mine(i) ==
    /\ txs[i] = "pending"
    /\ \E s \in {"mined", "reverted"} : txs' = [txs EXCEPT ![i] = s]
    /\ UNCHANGED <<mounted, effectQueued, deps, provider, contract, pending,
                   initRuns, initLogs, calls>>

\* the promise of tx.wait() settles and writeData continues
ResumeWait(i) ==
    /\ calls[i].pc = "awaitWait"
    /\ \E w \in WaitSettlements(txs[i], i) :
          LET c == [calls[i] EXCEPT !.wresp = w]
          IN  calls' = [calls EXCEPT ![i] =
                           IF w = Rejected THEN Catch(c) ELSE Return(c, c.resp)]
    /\ UNCHANGED <<mounted, effectQueued, deps, provider, contract, pending,
                   initRuns, initLogs, txs>>

\* the consumer takes the settled promise; the frame is gone
Consume(i) ==
    /\ calls[i].pc \in {"done", "threw"}
    /\ calls' = [calls EXCEPT ![i] = IdleCall]
    /\ txs' = [txs EXCEPT ![i] = "none"]
    /\ UNCHANGED <<mounted, effectQueued, deps, provider, contract, pending,
                   initRuns, initLogs>>

Next ==
    \/ Mount
    \/ RunEffect
    \/ Render
    \/ \E i \in CallIds : Call(i)
    \/ \E i \in CallIds : Resume(i)
    \/ \E i \in CallIds : Mine(i)
    \/ \E i \in CallIds : ResumeWait(i)
    \/ \E i \in CallIds : Consume(i)

Spec == Init /\ [][Next]_vars

----------------------------------------------------------------------------
(* Properties *)

\* the value of a BigNumber is below 2^53
SafeInteger(b) ==
    /\ b.t = "bn"
    /\ \/ Len(b.words) <= 2
       \/ (Len(b.words) = 3 /\ b.words[3] <= 1)

RECURSIVE WordsValue(_)
\* the integer a little-endian sequence of 26-bit words denotes
WordsValue(w) ==
    IF w = <<>> THEN 0 ELSE Head(w) + 67108864 * WordsValue(Tail(w))

\* invocation i goes from not invoked to invoked in this step
Invoked(i) == calls[i].pc = "idle" /\ calls'[i].pc # "idle"

\* the accessor of frame c met one of its failure points
Failed(c) ==
    \/ c.resp = Rejected
    \/ c.wresp = Rejected
    \/ (c.acc = "writeData" /\ c.resp.t \notin {"tx", "pending"})
    \/ (c.acc = "users" /\ c.resp.t # "pending"
          /\ (c.resp.t # "tuple" \/ ~SafeInteger(c.resp.id)
                \/ ~SafeInteger(c.resp.partnersCount)
                \/ ~SafeInteger(c.resp.registrationTime)))
    \/ (c.acc \in {"userX4Matrix", "getTotalCycles", "getPartnerCount"}
          /\ c.resp.t # "pending" /\ ~SafeInteger(c.resp))

\* C1: while the contract handle is unset, invoking any accessor resolves to
\* null at once, without a log line and without a contract call or a wait.
C1_UnsetReturnsNull ==
    [][\A i \in CallIds :
          (Invoked(i) /\ contract = Null) =>
              /\ calls'[i].pc = "done"
              /\ calls'[i].result = Null
              /\ calls'[i].issued = 0
              /\ calls'[i].waits = 0
              /\ calls'[i].logged = 0]_vars

\* an accessor returned null by its guard after init failed half-way
C1_Witness ==
    /\ contract = Null
    /\ provider # Null
    /\ \E i \in CallIds :
          /\ calls[i].pc = "done"
          /\ calls[i].acc = "getPartnerCount"
          /\ calls[i].result = Null
          /\ calls[i].issued = 0

\* C2: no failure inside an accessor reaches the caller: a failed call
\* resolves to null with exactly one log line, a successful one logs nothing;
\* a call on a name the contract lacks fails the same way before any call.
C2_FailuresSwallowed ==
    /\ [](\A i \in CallIds :
            /\ calls[i].pc # "threw"
            /\ calls[i].logged <= 1
            /\ (calls[i].pc = "done" /\ calls[i].issued >= 1) =>
                  /\ Failed(calls[i]) => (calls[i].result = Null /\ calls[i].logged = 1)
                  /\ ~Failed(calls[i]) => (calls[i].result # Null /\ calls[i].logged = 0)
            /\ calls[i].pc \in {"awaitCall", "awaitWait"} => calls[i].logged = 0)
    /\ [][\A i \in CallIds :
            (Invoked(i) /\ contract # Null
               /\ MethodKind(ContractMethod(calls'[i].acc, calls'[i].args)) = "absent") =>
                  /\ calls'[i].pc = "done"
                  /\ calls'[i].result = Null
                  /\ calls'[i].logged = 1]_vars

\* a call that fulfilled but whose numeric conversion threw
C2_Witness ==
    \E i \in CallIds :
       /\ calls[i].pc = "done"
       /\ calls[i].acc = "getTotalCycles"
       /\ calls[i].resp = BN(<<0, 0, 2>>)
       /\ calls[i].result = Null
       /\ calls[i].logged = 1

\* C3: writeData resolves to a non-null value only with the transaction it
\* sent, after tx.wait() fulfilled, which needs the transaction mined.
C3_WriteAfterConfirmation ==
    \A i \in CallIds :
       (calls[i].acc = "writeData" /\ calls[i].pc = "done" /\ calls[i].result # Null) =>
           /\ txs[i] = "mined"
           /\ calls[i].wresp = Receipt(i)
           /\ calls[i].waits = 1
           /\ calls[i].result = Tx(i)

\* writeData returned its confirmed transaction
C3_Witness ==
    \E i \in CallIds :
       /\ calls[i].acc = "writeData"
       /\ calls[i].pc = "done"
       /\ calls[i].result = Tx(i)
       /\ txs[i] = "mined"

\* init() ran and no contract handle is or will be set by it
InitFailed ==
    /\ initRuns >= 1
    /\ contract = Null
    /\ \A k \in 1..Len(pending) : pending[k].cell # "contract"

\* C4: when a step of initialization fails, the failure is logged and both
\* the provider and the contract stay unset.
C4_FailedInitLeavesBothUnset ==
    InitFailed => (initLogs >= 1 /\ provider = Null /\ contract = Null)

\* C5: from mount on init() is scheduled or has run, exactly once in all; once
\* its updates are committed the two cells never change, and no step of an
\* accessor touches them or queues an update.
C5_InitOnceThenFrozen ==
    /\ [](mounted => initRuns + (IF effectQueued THEN 1 ELSE 0) = 1)
    /\ [][/\ initRuns' <= 1
          /\ (initRuns = 1 /\ pending = <<>>) =>
                (provider' = provider /\ contract' = contract)
          /\ (calls' # calls \/ txs' # txs) =>
                (provider' = provider /\ contract' = contract
                   /\ pending' = pending /\ initRuns' = initRuns)]_vars

\* writeData completed against the committed handles
C5_Witness ==
    /\ initRuns = 1
    /\ pending = <<>>
    /\ contract = ContractObj(1)
    /\ provider = ProviderObj(1)
    /\ \E i \in CallIds :
          /\ calls[i].acc = "writeData"
          /\ calls[i].pc = "done"
          /\ calls[i].result = Tx(i)

\* what a read accessor returns when its contract call settles with r
Expected(acc, r) ==
    CASE r = Rejected -> Null
      [] acc = "users" ->
            IF r.t = "tuple" /\ SafeInteger(r.id) /\ SafeInteger(r.partnersCount)
                 /\ SafeInteger(r.registrationTime)
            THEN [t |-> "userData",
                  id |-> Num(WordsValue(r.id.words)),
                  referrer |-> r.referrer,
                  partnersCount |-> Num(WordsValue(r.partnersCount.words)),
                  registrationTime |-> Num(WordsValue(r.registrationTime.words))]
            ELSE Null
      [] acc \in {"userX4Matrix", "getTotalCycles", "getPartnerCount"} ->
            IF SafeInteger(r) THEN Num(WordsValue(r.words)) ELSE Null
      [] OTHER -> r

\* the contract method a read accessor is specified to read
MethodOf(acc, args) ==
    CASE acc = "fetchData" -> args[1]
      [] acc = "userX3Matrix" -> "usersX3Matrix"
      [] acc = "userX4Matrix" -> "usersX4Matrix"
      [] OTHER -> acc

\* C6: under every interleaving of two invocations, a read accessor resolves
\* with the outcome of its own contract call on its own arguments, and a
\* suspended invocation is left untouched by the other one.
C6_CallsIndependent ==
    \A i \in CallIds :
       /\ calls[i].pc = "idle" => calls[i] = IdleCall
       /\ calls[i].pc = "awaitCall" =>
             (calls[i].resp = NoResponse /\ calls[i].result = Undefined)
       /\ (calls[i].acc \in ReadAccessors /\ calls[i].pc = "done" /\ calls[i].issued = 1) =>
             /\ calls[i].method = MethodOf(calls[i].acc, calls[i].args)
             /\ calls[i].resp \in Settlements(calls[i].method, i)
             /\ calls[i].result = Expected(calls[i].acc, calls[i].resp)

\* one read resolved with its value while a different read, on other
\* arguments, has failed
C6_Witness ==
    /\ calls[1].pc = "done"
    /\ calls[1].acc = "usersActiveX3Levels"
    /\ calls[1].result = Bool(TRUE)
    /\ calls[2].pc = "done"
    /\ calls[2].acc = "getPartnerCount"
    /\ calls[2].args # calls[1].args
    /\ calls[2].resp = Rejected
    /\ calls[2].result = Null

\* C7: users(addr) reads the contract's users(addr); when the tuple's numeric
\* fields are below 2^53 it returns their values as numbers and the referrer
\* unchanged.
C7_UsersFieldsMatch ==
    \A i \in CallIds :
       (calls[i].acc = "users" /\ calls[i].pc = "done" /\ calls[i].issued = 1) =>
           /\ calls[i].method = "users"
           /\ calls[i].params = calls[i].args
           /\ (/\ calls[i].resp.t = "tuple"
               /\ SafeInteger(calls[i].resp.id)
               /\ SafeInteger(calls[i].resp.partnersCount)
               /\ SafeInteger(calls[i].resp.registrationTime)) =>
                  /\ calls[i].result.t = "userData"
                  /\ calls[i].result.id = Num(WordsValue(calls[i].resp.id.words))
                  /\ calls[i].result.partnersCount =
                        Num(WordsValue(calls[i].resp.partnersCount.words))
                  /\ calls[i].result.registrationTime =
                        Num(WordsValue(calls[i].resp.registrationTime.words))
                  /\ calls[i].result.referrer = calls[i].resp.referrer

\* users returned a record with a two-word registration time
C7_Witness ==
    \E i \in CallIds :
       /\ calls[i].acc = "users"
       /\ calls[i].pc = "done"
       /\ calls[i].result.t = "userData"
       /\ calls[i].result.registrationTime = Num(67108867)
       /\ calls[i].result.partnersCount = Num(2)

\* C8: with the contract set, usersActiveX3Levels / usersActiveX4Levels call
\* the same-named contract method on their own arguments, return the boolean
\* it yields, and return null only when that call is rejected.
C8_LevelsPassThrough ==
    /\ [](\A i \in CallIds :
            (calls[i].acc \in {"usersActiveX3Levels", "usersActiveX4Levels"}
               /\ calls[i].issued = 1) =>
                /\ calls[i].method = calls[i].acc
                /\ calls[i].params = calls[i].args
                /\ calls[i].pc = "done" =>
                      /\ calls[i].resp.t = "bool" => calls[i].result = calls[i].resp
                      /\ calls[i].result = Null => calls[i].resp = Rejected)
    /\ [][\A i \in CallIds :
            (Invoked(i) /\ contract # Null
               /\ calls'[i].acc \in {"usersActiveX3Levels", "usersActiveX4Levels"}) =>
                  (calls'[i].pc = "awaitCall" /\ calls'[i].issued = 1)]_vars

\* usersActiveX4Levels returned false for the highest level
C8_Witness ==
    \E i \in CallIds :
       /\ calls[i].acc = "usersActiveX4Levels"
       /\ calls[i].args[2] = MaxLevel
       /\ calls[i].pc = "done"
       /\ calls[i].result = Bool(FALSE)

\* C9: an invocation calls the contract at most once and waits for
\* confirmation at most once, and only writeData waits.
C9_NoRetry ==
    \A i \in CallIds :
       /\ calls[i].issued <= 1
       /\ calls[i].waits <= 1
       /\ calls[i].waits <= calls[i].issued
       /\ calls[i].acc # "writeData" => calls[i].waits = 0

\* one call ended on a rejected contract call, one on a rejected wait
C9_Witness ==
    /\ calls[1].pc = "done"
    /\ calls[1].resp = Rejected
    /\ calls[1].issued = 1
    /\ calls[2].pc = "done"
    /\ calls[2].wresp = Rejected
    /\ calls[2].waits = 1

\* C10: a set contract implies a set provider, and a writeData that got past
\* its guard derived its signer from a provider.
C10_ContractImpliesProvider ==
    /\ contract # Null => (provider # Null /\ provider.id = contract.provider)
    /\ \A i \in CallIds :
          /\ calls[i].signer # NoSigner =>
                (calls[i].acc = "writeData" /\ calls[i].signer.t = "signer")
          /\ (calls[i].acc = "writeData" /\ calls[i].issued = 1) =>
                calls[i].signer.t = "signer"

\* writeData sent a transaction with a signer of the provider
C10_Witness ==
    \E i \in CallIds :
       /\ calls[i].acc = "writeData"
       /\ calls[i].pc = "awaitWait"
       /\ calls[i].signer = [t |-> "signer", provider |-> 1]

====
